---- MODULE Spec2Model ----
(***************************************************************************)
(* A model of the node-local control plane of hyperswarm-dht:              *)
(*   - QueryStats, QueryStream and QueryPool   (src/src/rpc/query/mod.rs)  *)
(*   - the DHT request/response dispatcher     (src/src/rpc/mod.rs)        *)
(*                                                                         *)
(* Option<T> is modelled as a sequence: None is <<>> and Some(x) is <<x>>. *)
(* Byte strings (Vec<u8>, GenericArray<u8, U32>) are sequences of bytes.   *)
(***************************************************************************)
EXTENDS Integers, Sequences, FiniteSets, TLC

VARIABLES
    \* ---- DHT (src/src/rpc/mod.rs:21-30)
    kbuckets,     \* the routing table: node id -> [addr, token, to]
    commands,     \* names of the registered custom command codecs
    io,           \* responses handed to Io while the current message is handled
    msg,          \* the inbound message being handled, <<>> before the first
    peer,         \* the Peer the message came from, <<>> before the first
    ty,           \* "Request" or "Response": how msg was dispatched
    result,       \* the CommandResult of the handler, <<>> when none
    \* ---- QueryPool (src/src/rpc/query/mod.rs:20-23)
    queries,      \* QueryId -> QueryStream
    next_id,      \* the id counter
    ret,          \* the last pool or stream operation and what it returned
    \* ---- QueryStats values held by a caller (pure-function specification)
    sa, sb, sc,   \* three QueryStats operands
    merged,       \* the results of the last merges, <<>> before the first
    \* ---- the MovingCloser peer iterator of one query
    candidates,   \* the candidate set: QueryPeers in ascending distance
    handed        \* peer id -> how often the iterator has handed it out

dhtVars   == <<kbuckets, commands, io, msg, peer, ty, result>>
poolVars  == <<queries, next_id, ret>>
statsVars == <<sa, sb, sc, merged>>
iterVars  == <<candidates, handed>>
vars      == <<dhtVars, poolVars, statsVars, iterVars>>

None == <<>>
Some(x) == <<x>>
IsSome(o) == o # <<>>
Unwrap(o) == o[1]

----------------------------------------------------------------------------
(***************************************************************************)
(* QueryStats                                                              *)
(***************************************************************************)

\* The counters are u32. Every sum formed below stays far under 2^32, where
\* u32 addition and subtraction are exact, so they are computed in Int.

\* Largest value a counter of an operand takes, and the largest Instant.
MaxCount == 1
MaxTime == 2

Instants == 1..MaxTime

\* QueryStats::empty
empty ==
    [requests |-> 0, success |-> 0, failure |-> 0, start |-> None, end |-> None]

\* QueryStats::num_pending, before the reduction to u32: a negative value is
\* the u32 subtraction underflowing.
num_pending(s) == s.requests - (s.success + s.failure)

\* Ord for Option<Instant>: None is less than every Some.
OptionLe(a, b) == a = None \/ (b # None /\ Unwrap(a) <= Unwrap(b))

\* std::cmp::max(a, b): the second argument unless the first is greater.
OptionMax(a, b) == IF OptionLe(a, b) THEN b ELSE a

\* std::cmp::min on two Instants.
InstantMin(a, b) == IF a <= b THEN a ELSE b

\* Option::or
OptionOr(a, b) == IF IsSome(a) THEN a ELSE b

\* merge with the requests of `other` dropped.
merge_DropRequests(self, other) ==
    [requests |-> self.requests,
     success  |-> self.success + other.success,
     failure  |-> self.failure + other.failure,
     start    |-> IF IsSome(self.start) /\ IsSome(other.start)
                  THEN Some(InstantMin(Unwrap(self.start), Unwrap(other.start)))
                  ELSE OptionOr(self.start, other.start),
     end      |-> OptionMax(self.end, other.end)]

\* merge that keeps its own start whenever it has one.
merge_OwnStart(self, other) ==
    [requests |-> self.requests + other.requests,
     success  |-> self.success + other.success,
     failure  |-> self.failure + other.failure,
     start    |-> OptionOr(self.start, other.start),
     end      |-> OptionMax(self.end, other.end)]

\* merge that takes the end of `other` unless its own is greater, comparing
\* only when both are set (None of `other` wins over a set end).
merge_EndOfOther(self, other) ==
    [requests |-> self.requests + other.requests,
     success  |-> self.success + other.success,
     failure  |-> self.failure + other.failure,
     start    |-> IF IsSome(self.start) /\ IsSome(other.start)
                  THEN Some(InstantMin(Unwrap(self.start), Unwrap(other.start)))
                  ELSE OptionOr(self.start, other.start),
     end      |-> IF IsSome(self.end) /\ IsSome(other.end)
                  THEN OptionMax(self.end, other.end)
                  ELSE other.end]

\* QueryStats::merge
merge(self, other) ==
    [requests |-> self.requests + other.requests,
     success  |-> self.success + other.success,
     failure  |-> self.failure + other.failure,
     start    |-> IF IsSome(self.start) /\ IsSome(other.start)
                  THEN Some(InstantMin(Unwrap(self.start), Unwrap(other.start)))
                  ELSE OptionOr(self.start, other.start),
     end      |-> OptionMax(self.end, other.end)]

\* The QueryStats values a query can hold: counters with
\* requests >= success + failure, and a start no later than the end.
StatsValues ==
    { s \in [requests : 0..MaxCount, success : 0..MaxCount, failure : 0..MaxCount,
             start : {None} \cup {Some(t) : t \in Instants},
             end : {None} \cup {Some(t) : t \in Instants}] :
        /\ s.success + s.failure <= s.requests
        /\ (IsSome(s.start) /\ IsSome(s.end)) => Unwrap(s.start) <= Unwrap(s.end) }

StatsInit ==
    /\ sa \in StatsValues
    /\ sb \in StatsValues
    /\ sc \in StatsValues
    /\ merged = <<>>

\* A caller merges the three operands in both orders and both groupings.
StatsMerge ==
    /\ merged = <<>>
    /\ merged' = [ab   |-> merge(sa, sb),
                  ba   |-> merge(sb, sa),
                  ab_c |-> merge(merge(sa, sb), sc),
                  a_bc |-> merge(sa, merge(sb, sc))]
    /\ UNCHANGED <<sa, sb, sc>>
    /\ UNCHANGED <<dhtVars, poolVars, iterVars>>

StatsNext == StatsMerge

----------------------------------------------------------------------------
(***************************************************************************)
(* The DHT dispatcher                                                      *)
(***************************************************************************)

\* Length of a node id and of a target key: GenericArray<u8, U32>.
KeyLen == 32

Bytes(n, b) == [i \in 1..n |-> b]

\* DHT::id, the receiver's own id.
LocalId == Bytes(KeyLen, 0)

IdA == Bytes(KeyLen, 1)
IdB == Bytes(KeyLen, 2)
\* A byte string one byte short of an id.
ShortBytes == Bytes(KeyLen - 1, 1)
TargetKey == Bytes(KeyLen, 3)

AddrA == [ip |-> <<10, 0, 0, 1>>, port |-> 4000]
AddrB == [ip |-> <<10, 0, 0, 2>>, port |-> 258]

\* Peer (src/src/rpc/mod.rs:133-137)
Peers == [addr : {AddrA, AddrB}, referrer : {None}]

\* Command (Ping, FindNode, HolePunch, Unknown(name))
Ping == [kind |-> "Ping", name |-> ""]
FindNode == [kind |-> "FindNode", name |-> ""]
HolePunch == [kind |-> "HolePunch", name |-> ""]
Unknown(name) == [kind |-> "Unknown", name |-> name]

\* Names of custom commands; a codec is registered for "store" only.
CustomNames == {"store", "lookup"}

\* Peer::encode: the address as 4 bytes of IPv4 and the port, big endian.
encode(p) == p.addr.ip \o <<p.addr.port \div 256, p.addr.port % 256>>

\* The inbound messages.
Messages ==
    [command : {None} \cup {Some(c) : c \in {Ping, FindNode, HolePunch}
                                        \cup {Unknown(n) : n \in CustomNames}},
     value : {None, Some(LocalId), Some(IdA)},
     target : {None, Some(TargetKey), Some(ShortBytes)},
     id : {None, Some(ShortBytes), Some(IdA), Some(IdB)},
     to : {None, Some(encode([addr |-> AddrA]))},
     roundtrip_token : {None, Some(<<7>>)}]

\* CommandResult
Ok == <<"Ok">>
Err(e) == <<"Err">> \o e
UnknownCommand(name) == <<"UnknownCommand", name>>
MissingTarget == <<"MissingTarget">>
MissingCommand == <<"MissingCommand">>
\* unimplemented!() reached: the handler panics.
Panic == <<"Panic">>

\* Message::valid_id: the sender id when it has the length of an id.
valid_id(m) ==
    IF IsSome(m.id) /\ Len(Unwrap(m.id)) = KeyLen THEN m.id ELSE None

\* Message::valid_key_bytes: the target when it has the length of a key.
valid_key_bytes(m) ==
    IF IsSome(m.target) /\ Len(Unwrap(m.target)) = KeyLen THEN m.target ELSE None

\* Message::get_command
get_command(m) == m.command

\* DHT::add_node: upsert of the node with its address, token and `to`.
add_node(self, id, p, token, to) ==
    [self EXCEPT !.kbuckets =
        [x \in DOMAIN self.kbuckets \cup {id} |->
            IF x = id THEN [addr |-> p.addr, token |-> token, to |-> to]
            ELSE self.kbuckets[x]]]

\* Io::response: queue one response to `p`.
io_response(self, m, value, closer_nodes, p) ==
    [self EXCEPT !.io =
        Append(self.io, [request |-> m, value |-> value,
                         closer_nodes |-> closer_nodes, peer |-> p])]

\* Bitwise xor of two bytes.
RECURSIVE XorBits(_, _, _)
XorBits(a, b, n) ==
    IF n = 0 THEN 0
    ELSE (IF (a % 2) # (b % 2) THEN 1 ELSE 0) + 2 * XorBits(a \div 2, b \div 2, n - 1)

\* The xor distance of two keys, byte by byte.
Distance(x, y) == [i \in 1..KeyLen |-> XorBits(x[i], y[i], 8)]

\* Lexicographic (big endian) comparison of two distances.
RECURSIVE DistLess(_, _, _)
DistLess(d, e, i) ==
    IF i > KeyLen THEN FALSE
    ELSE IF d[i] # e[i] THEN d[i] < e[i]
    ELSE DistLess(d, e, i + 1)

\* KBucketsTable::closest: the known node ids in ascending distance to key.
RECURSIVE SortByDistance(_, _)
SortByDistance(ids, key) ==
    IF ids = {} THEN <<>>
    ELSE LET first == CHOOSE x \in ids :
                 \A y \in ids \ {x} : DistLess(Distance(x, key), Distance(y, key), 1)
         IN <<first>> \o SortByDistance(ids \ {first}, key)

closest(self, key) == SortByDistance(DOMAIN self.kbuckets, key)

\* Iterator::take
Take(seq, n) == SubSeq(seq, 1, IF Len(seq) < n THEN Len(seq) ELSE n)

\* PeersEncoding::encode: the packed (id, address) tuples of the nodes.
PeersEncoding_encode(self, nodes) ==
    [i \in 1..Len(nodes) |->
        nodes[i] \o encode([addr |-> self.kbuckets[nodes[i]].addr])]

\* How many of the closest nodes a FindNode reply carries.
ClosestCount == 20

\* onping without the self-check: it replies to every Ping.
onping_AlwaysReply(self, m, p) ==
    [self |-> io_response(self, m, Some(encode(p)), None, p), result |-> Ok]

\* DHT::onping
onping(self, m, p) ==
    IF IsSome(m.value) /\ self.id = Unwrap(m.value)
    THEN [self |-> self, result |-> Ok]
    ELSE [self |-> io_response(self, m, Some(encode(p)), None, p), result |-> Ok]

\* onfindnode that replies with every known node, however many.
onfindnode_NoTake(self, m, p) ==
    IF IsSome(valid_key_bytes(m))
    THEN LET key == Unwrap(valid_key_bytes(m))
             nodes == closest(self, key)
             closer_nodes == PeersEncoding_encode(self, nodes)
         IN [self |-> io_response(self, m, None, Some(closer_nodes), p),
             result |-> Ok]
    ELSE [self |-> self, result |-> Ok]

\* onfindnode that rejects a request without a valid target.
onfindnode_TargetRequired(self, m, p) ==
    IF IsSome(valid_key_bytes(m))
    THEN LET key == Unwrap(valid_key_bytes(m))
             nodes == Take(closest(self, key), ClosestCount)
             closer_nodes == PeersEncoding_encode(self, nodes)
         IN [self |-> io_response(self, m, None, Some(closer_nodes), p),
             result |-> Ok]
    ELSE [self |-> self, result |-> Err(MissingTarget)]

\* DHT::onfindnode
onfindnode(self, m, p) ==
    IF IsSome(valid_key_bytes(m))
    THEN LET key == Unwrap(valid_key_bytes(m))
             nodes == Take(closest(self, key), ClosestCount)
             closer_nodes == PeersEncoding_encode(self, nodes)
         IN [self |-> io_response(self, m, None, Some(closer_nodes), p),
             result |-> Ok]
    ELSE [self |-> self, result |-> Ok]

\* DHT::onholepunch: unimplemented!()
onholepunch(self, m, p) == [self |-> self, result |-> Panic]

\* on_command that lets a command without a codec pass.
on_command_IgnoreUnknown(self, cmd, m, p) ==
    IF m.target = None
    THEN [self |-> self, result |-> Err(MissingTarget)]
    ELSE IF cmd \in self.commands
         THEN [self |-> self, result |-> Panic]
         ELSE [self |-> self, result |-> Ok]

\* on_command without the check of the target.
on_command_NoTargetCheck(self, cmd, m, p) ==
    IF cmd \in self.commands
    THEN [self |-> self, result |-> Panic]
    ELSE [self |-> self, result |-> Err(UnknownCommand(cmd))]

\* DHT::on_command
on_command(self, cmd, m, p) ==
    IF m.target = None
    THEN [self |-> self, result |-> Err(MissingTarget)]
    ELSE IF cmd \in self.commands
         THEN [self |-> self, result |-> Panic]  \* unimplemented!()
         ELSE [self |-> self, result |-> Err(UnknownCommand(cmd))]

\* onrequest that upserts the sender whatever the length of its id.
onrequest_AnySenderId(self, m, p) ==
    LET self1 == IF IsSome(m.id)
                 THEN add_node(self, Unwrap(m.id), p, None, m.to)
                 ELSE self
    IN IF IsSome(get_command(m))
       THEN LET cmd == Unwrap(get_command(m))
            IN CASE cmd.kind = "Ping" -> onping(self1, m, p)
                 [] cmd.kind = "FindNode" -> onfindnode(self1, m, p)
                 [] cmd.kind = "HolePunch" -> onholepunch(self1, m, p)
                 [] cmd.kind = "Unknown" -> on_command(self1, cmd.name, m, p)
       ELSE [self |-> self1, result |-> Err(MissingCommand)]

\* onrequest that takes the round-trip token of the request into the upsert.
onrequest_TokenOfRequest(self, m, p) ==
    LET self1 == IF IsSome(valid_id(m))
                 THEN add_node(self, Unwrap(valid_id(m)), p, m.roundtrip_token, m.to)
                 ELSE self
    IN IF IsSome(get_command(m))
       THEN LET cmd == Unwrap(get_command(m))
            IN CASE cmd.kind = "Ping" -> onping(self1, m, p)
                 [] cmd.kind = "FindNode" -> onfindnode(self1, m, p)
                 [] cmd.kind = "HolePunch" -> onholepunch(self1, m, p)
                 [] cmd.kind = "Unknown" -> on_command(self1, cmd.name, m, p)
       ELSE [self |-> self1, result |-> Err(MissingCommand)]

\* onrequest that accepts a request without a command.
onrequest_NoCommandOk(self, m, p) ==
    LET self1 == IF IsSome(valid_id(m))
                 THEN add_node(self, Unwrap(valid_id(m)), p, None, m.to)
                 ELSE self
    IN IF IsSome(get_command(m))
       THEN LET cmd == Unwrap(get_command(m))
            IN CASE cmd.kind = "Ping" -> onping(self1, m, p)
                 [] cmd.kind = "FindNode" -> onfindnode(self1, m, p)
                 [] cmd.kind = "HolePunch" -> onholepunch(self1, m, p)
                 [] cmd.kind = "Unknown" -> on_command(self1, cmd.name, m, p)
       ELSE [self |-> self1, result |-> Ok]

\* DHT::onrequest
onrequest(self, m, p) ==
    LET self1 == IF IsSome(valid_id(m))
                 THEN add_node(self, Unwrap(valid_id(m)), p, None, m.to)
                 ELSE self
    IN IF IsSome(get_command(m))
       THEN LET cmd == Unwrap(get_command(m))
            IN CASE cmd.kind = "Ping" -> onping(self1, m, p)
                 [] cmd.kind = "FindNode" -> onfindnode(self1, m, p)
                 [] cmd.kind = "HolePunch" -> onholepunch(self1, m, p)
                 [] cmd.kind = "Unknown" -> on_command(self1, cmd.name, m, p)
       ELSE [self |-> self1, result |-> Err(MissingCommand)]

\* DHT::onresponse
onresponse(self, m, p) ==
    IF IsSome(valid_id(m))
    THEN add_node(self, Unwrap(valid_id(m)), p, m.roundtrip_token, m.to)
    ELSE self

\* The DHT as the handlers see it; the transport has drained Io before the
\* inbound message is dispatched.
Self == [id |-> LocalId, kbuckets |-> kbuckets, commands |-> commands, io |-> <<>>]

\* The routing tables earlier traffic can have left: each known node with the
\* address, token and `to` of the last message that upserted it.
Entries ==
    [addr : {AddrA, AddrB}, token : {None, Some(<<7>>)},
     to : {None, Some(encode([addr |-> AddrA]))}]

Tables == UNION { [ids -> Entries] : ids \in SUBSET {IdA, IdB} }

\* A behaviour dispatches one inbound message against such a table.
DhtInit ==
    /\ kbuckets \in Tables
    /\ commands = {"store"}
    /\ io = <<>>
    /\ msg = <<>>
    /\ peer = <<>>
    /\ ty = ""
    /\ result = <<>>

\* An inbound request is dispatched.
OnRequest(m, p) ==
    /\ msg = <<>>
    /\ LET r == onrequest(Self, m, p)
       IN /\ kbuckets' = r.self.kbuckets
          /\ io' = r.self.io
          /\ result' = r.result
    /\ msg' = m
    /\ peer' = p
    /\ ty' = "Request"
    /\ UNCHANGED commands
    /\ UNCHANGED <<poolVars, statsVars, iterVars>>

\* An inbound response is dispatched.
OnResponse(m, p) ==
    /\ msg = <<>>
    /\ LET r == onresponse(Self, m, p)
       IN /\ kbuckets' = r.kbuckets
          /\ io' = r.io
    /\ result' = <<>>
    /\ msg' = m
    /\ peer' = p
    /\ ty' = "Response"
    /\ UNCHANGED commands
    /\ UNCHANGED <<poolVars, statsVars, iterVars>>

\* The messages that can arrive: one per behaviour.
Inbound == IF msg = <<>> THEN Messages ELSE {}

DhtNext ==
    \/ \E m \in Inbound, p \in Peers : OnRequest(m, p)
    \/ \E m \in Inbound, p \in Peers : OnResponse(m, p)

\* How many nodes the routing table of a FindNode behaviour holds at most.
MaxNodes == 21

\* The k-th node of such a table: ids come in pairs that agree in all bytes
\* but the last, so that their distances to a key differ in the last byte
\* only; the pairs differ in the first byte.
NodeId(k) ==
    [i \in 1..KeyLen |-> IF i = 1 THEN k \div 2 ELSE IF i = KeyLen THEN k ELSE 1]

\* The routing tables of 0 to MaxNodes nodes.
FindTables ==
    { [id \in {NodeId(k) : k \in 1..n} |->
          [addr |-> IF id[KeyLen] % 2 = 0 THEN AddrA ELSE AddrB,
           token |-> None, to |-> None]] : n \in 0..MaxNodes }

\* The inbound FindNode requests: every target and sender id of Messages,
\* with or without `to`; a FindNode reads neither value nor token.
FindNodeMessages ==
    {m \in Messages : /\ m.command = Some(FindNode)
                      /\ m.value = None
                      /\ m.roundtrip_token = None}

\* A behaviour dispatches one FindNode request against such a table.
FindInit ==
    /\ kbuckets \in FindTables
    /\ commands = {"store"}
    /\ io = <<>>
    /\ msg = <<>>
    /\ peer = <<>>
    /\ ty = ""
    /\ result = <<>>

FindInbound == IF msg = <<>> THEN FindNodeMessages ELSE {}

FindNext == \E m \in FindInbound, p \in Peers : OnRequest(m, p)

----------------------------------------------------------------------------
(***************************************************************************)
(* QueryPool and QueryStream                                               *)
(***************************************************************************)

\* How many queries the pool holds at most.
MaxQueries == 2

\* usize::wrapping_add. TLC's integers are 32 bits wide, so the counter is
\* given a width of 30 bits; the pool never holds more than MaxQueries and
\* the counter starts at 0, so the width is not reached here.
UsizeRange == 1073741824
wrapping_add(a, b) == (a + b) % UsizeRange

\* kbucket::ALPHA_VALUE, the parallelism of a query.
ALPHA_VALUE == 3

\* QueryType
QueryTypes == {"Query", "Update", "QueryUpdate"}

\* QueryType::is_update
is_update(qty) == qty \in {"Update", "QueryUpdate"}

\* QueryType::is_query
is_query(qty) == qty \in {"Query", "QueryUpdate"}

\* QueryPoolState
Idle == <<"Idle">>
Waiting(stream) == <<"Waiting", stream>>
Finished(stream) == <<"Finished", stream>>
Timeout(stream) == <<"Timeout", stream>>

\* The pool as its methods see it.
Pool == [queries |-> queries, next_id |-> next_id]

\* QueryPool::size
size(pool) == Cardinality(DOMAIN pool.queries)

\* QueryPool::get
get(pool, id) == IF id \in DOMAIN pool.queries THEN Some(pool.queries[id]) ELSE None

\* QueryPool::next_query_id: the id handed out and the pool after it.
next_query_id(pool) ==
    [id |-> pool.next_id,
     pool |-> [pool EXCEPT !.next_id = wrapping_add(pool.next_id, 1)]]

\* QueryStream::bootstrap
QueryStream_bootstrap(id, cmd, qty, local_id, target, peers, bootstrap) ==
    [id |-> id,
     peer_iter |-> [kind |-> "Bootstrap", peers |-> bootstrap,
                    parallelism |-> ALPHA_VALUE],
     cmd |-> cmd,
     stats |-> empty,
     ty |-> qty,
     inner |-> [local_id |-> local_id, target |-> target, peers |-> peers]]

\* QueryPool::add: allocate an id, construct the stream, insert it.
add(pool, cmd, peers, qty, target, bootstrap) ==
    LET n == next_query_id(pool)
        stream == QueryStream_bootstrap(n.id, cmd, qty, LocalId, target, peers, bootstrap)
    IN [id |-> n.id,
        pool |-> [n.pool EXCEPT !.queries =
                    [q \in DOMAIN n.pool.queries \cup {n.id} |->
                        IF q = n.id THEN stream ELSE n.pool.queries[q]]]]

\* QueryPool::poll that reports Idle whatever the pool holds.
QueryPool_poll_AlwaysIdle(pool) == Idle

\* QueryPool::poll
QueryPool_poll(pool) ==
    IF DOMAIN pool.queries = {} THEN Idle ELSE Waiting(None)

\* QueryStream::poll
QueryStream_poll(stream) == None

PoolInit ==
    /\ queries = <<>>
    /\ next_id = 0
    /\ ret = [op |-> "new"]

\* A caller starts a query.
Add(cmd, peers, qty, target, bootstrap) ==
    /\ size(Pool) < MaxQueries
    /\ LET r == add(Pool, cmd, peers, qty, target, bootstrap)
       IN /\ queries' = r.pool.queries
          /\ next_id' = r.pool.next_id
          /\ ret' = [op |-> "add", id |-> r.id]
    /\ UNCHANGED <<dhtVars, statsVars, iterVars>>

\* A caller polls the pool.
Poll ==
    /\ ret' = [op |-> "poll", state |-> QueryPool_poll(Pool)]
    /\ UNCHANGED <<queries, next_id>>
    /\ UNCHANGED <<dhtVars, statsVars, iterVars>>

\* A poll of a stream that takes the nodes out of the routing table itself
\* instead of asking for their removal by an event.
StreamPoll_RemovesNodes(id) ==
    /\ id \in DOMAIN queries
    /\ ret' = [op |-> "stream_poll", id |-> id,
               event |-> QueryStream_poll(queries[id])]
    /\ kbuckets' = <<>>
    /\ UNCHANGED <<queries, next_id>>
    /\ UNCHANGED <<commands, io, msg, peer, ty, result, statsVars, iterVars>>

\* A caller polls one stream of the pool (through get_mut).
StreamPoll(id) ==
    /\ id \in DOMAIN queries
    /\ ret' = [op |-> "stream_poll", id |-> id,
               event |-> QueryStream_poll(queries[id])]
    /\ UNCHANGED <<queries, next_id>>
    /\ UNCHANGED <<dhtVars, statsVars, iterVars>>

PoolNext ==
    \/ \E cmd \in {Ping, FindNode}, peers \in SUBSET {IdA}, qty \in QueryTypes,
          bootstrap \in SUBSET {[addr |-> AddrA, referrer |-> None]} :
          Add(cmd, peers, qty, TargetKey, bootstrap)
    \/ Poll
    \/ \E id \in DOMAIN queries : StreamPoll(id)

\* QueryPool::get_mut
get_mut(pool, id) == get(pool, id)

\* QueryStream::inject_response: unimplemented!()
inject_response(stream) == [stream |-> stream, result |-> Panic]

\* QueryStream::move_closer: both branches are empty, the assignments of the
\* state being commented out.
move_closer(stream) == IF is_update(stream.ty) THEN stream ELSE stream

\* A response is injected into one stream of the pool (through get_mut).
InjectResponse(id) ==
    /\ id \in DOMAIN queries
    /\ LET r == inject_response(Unwrap(get_mut(Pool, id)))
       IN /\ queries' = [queries EXCEPT ![id] = r.stream]
          /\ ret' = [op |-> "inject_response", id |-> id, result |-> r.result]
    /\ UNCHANGED next_id
    /\ UNCHANGED <<dhtVars, statsVars, iterVars>>

\* One stream of the pool is told that moving closer has ended.
MoveCloser(id) ==
    /\ id \in DOMAIN queries
    /\ queries' = [queries EXCEPT ![id] = move_closer(Unwrap(get_mut(Pool, id)))]
    /\ ret' = [op |-> "move_closer", id |-> id]
    /\ UNCHANGED next_id
    /\ UNCHANGED <<dhtVars, statsVars, iterVars>>

\* The inbound responses to queries: the fields onresponse reads, the query
\* the pending-request table resolves the response to (if any), and the peers
\* of the payload.
Responses ==
    [command : {None}, value : {None}, target : {None},
     id : {None, Some(IdA)},
     to : {None},
     roundtrip_token : {None, Some(<<7>>)},
     rid : {None} \cup {Some(q) : q \in 0..MaxQueries},
     closer_nodes : {None, Some(<<IdB \o encode([addr |-> AddrB])>>)}]

ResponseInbound == IF msg = <<>> THEN Responses ELSE {}

\* The routing tables a node with queries can have.
QueryTables ==
    {<<>>, [id \in {IdB} |-> [addr |-> AddrB, token |-> None, to |-> None]]}

\* A node with its routing table and its pool of queries.
QueryInit ==
    /\ kbuckets \in QueryTables
    /\ commands = {"store"}
    /\ io = <<>>
    /\ msg = <<>>
    /\ peer = <<>>
    /\ ty = ""
    /\ result = <<>>

QueryNext ==
    \/ \E peers \in SUBSET {IdA}, qty \in QueryTypes :
          Add(FindNode, peers, qty, TargetKey, {})
    \/ Poll
    \/ \E id \in DOMAIN queries : StreamPoll(id)
    \/ \E id \in DOMAIN queries : InjectResponse(id)
    \/ \E id \in DOMAIN queries : MoveCloser(id)
    \/ \E m \in ResponseInbound, p \in Peers : OnResponse(m, p)

----------------------------------------------------------------------------
(***************************************************************************)
(* The MovingCloser peer iterator                                          *)
(***************************************************************************)

\* How many candidates the iterator keeps (K) and how many peers there are.
MaxCandidates == 4
MaxPeers == 6

\* The ids of the peers a query can learn of, and the byte of the target
\* they are measured against.
IterPeerIds == {<<k>> : k \in 1..MaxPeers}
IterTarget == <<3>>

\* QueryPeer
QueryPeer(id) ==
    [id |-> id, addr |-> AddrA, queried |-> FALSE,
     distance |-> XorBits(id[1], IterTarget[1], 8)]

\* The QueryPeers of a set in ascending distance.
RECURSIVE SortPeers(_)
SortPeers(ps) ==
    IF ps = {} THEN <<>>
    ELSE LET first == CHOOSE x \in ps : \A y \in ps : x.distance <= y.distance
         IN <<first>> \o SortPeers(ps \ {first})

\* The candidates of the iterator as a set, and their ids.
Range(seq) == {seq[i] : i \in 1..Len(seq)}
CandidateIds(it) == {it[i].id : i \in 1..Len(it)}

\* An insert that takes every peer of a response as new, known or not.
MovingCloser_insert_Overwrite(it, ids) ==
    Take(SortPeers({c \in Range(it) : c.id \notin ids}
                   \cup {QueryPeer(id) : id \in ids}),
         MaxCandidates)

\* Insert of the newly learned peers: the set stays sorted and is cut to its
\* capacity.
MovingCloser_insert(it, ids) ==
    Take(SortPeers(Range(it) \cup {QueryPeer(id) : id \in ids \ CandidateIds(it)}),
         MaxCandidates)

\* The positions of the first n candidates not yet queried.
RECURSIVE Unqueried(_, _, _)
Unqueried(it, i, n) ==
    IF i > Len(it) \/ n = 0 THEN {}
    ELSE IF it[i].queried THEN Unqueried(it, i + 1, n)
    ELSE {i} \cup Unqueried(it, i + 1, n - 1)

\* The next demand: up to ALPHA_VALUE candidates not yet queried, closest
\* first, marked as queried at once.
MovingCloser_next(it) ==
    LET picked == Unqueried(it, 1, ALPHA_VALUE)
    IN [iter |-> [i \in 1..Len(it) |->
                    IF i \in picked THEN [it[i] EXCEPT !.queried = TRUE]
                    ELSE it[i]],
        batch |-> {it[i].id : i \in picked}]

\* No iterator.
IterIdle == candidates = <<>> /\ handed = <<>>

\* The iterator of a query seeded with some of the peers.
IterInit ==
    /\ \E seeds \in SUBSET IterPeerIds :
          candidates = MovingCloser_insert(<<>>, seeds)
    /\ handed = [id \in IterPeerIds |-> 0]

\* The query is polled: the iterator hands out its next peers.
IterNext ==
    /\ LET r == MovingCloser_next(candidates)
       IN /\ candidates' = r.iter
          /\ handed' = [id \in IterPeerIds |->
                          IF id \in r.batch THEN handed[id] + 1 ELSE handed[id]]
    /\ UNCHANGED <<dhtVars, poolVars, statsVars>>

\* A response is injected: the iterator learns the peers of its payload.
IterInsert(ids) ==
    /\ candidates' = MovingCloser_insert(candidates, ids)
    /\ UNCHANGED handed
    /\ UNCHANGED <<dhtVars, poolVars, statsVars>>

IterStep ==
    \/ IterNext
    \/ \E ids \in SUBSET IterPeerIds : IterInsert(ids)

----------------------------------------------------------------------------
(***************************************************************************)
(* Specifications                                                          *)
(***************************************************************************)

\* No dispatcher, no pool, no QueryStats operands.
DhtIdle ==
    /\ kbuckets = <<>> /\ commands = {"store"} /\ io = <<>> /\ msg = <<>>
    /\ peer = <<>> /\ ty = "" /\ result = <<>>

StatsIdle == sa = empty /\ sb = empty /\ sc = empty /\ merged = <<>>

\* The dispatcher: one inbound message against a routing table.
Init == DhtInit /\ PoolInit /\ StatsIdle /\ IterIdle

Next == DhtNext

Spec == Init /\ [][Next]_vars

\* The dispatcher answering one FindNode request against a table of up to
\* MaxNodes nodes.
FindSpecInit == FindInit /\ PoolInit /\ StatsIdle /\ IterIdle

FindSpec == FindSpecInit /\ [][FindNext]_vars

\* The query pool.
PoolSpecInit == DhtIdle /\ PoolInit /\ StatsIdle /\ IterIdle

PoolSpec == PoolSpecInit /\ [][PoolNext]_vars

\* A pool long in use: its counter is about to wrap or has wrapped round to 0,
\* and either no query is live or the query with id 0 still is, the queries
\* started since then having been drained.
WrapInit ==
    /\ next_id \in {UsizeRange - 1, 0}
    /\ queries \in {<<>>,
                    [id \in {0} |->
                        QueryStream_bootstrap(0, FindNode, "Query", LocalId,
                                              TargetKey, {IdA}, {})]}
    /\ ret = [op |-> "new"]

WrapSpecInit == DhtIdle /\ WrapInit /\ StatsIdle /\ IterIdle

WrapSpec == WrapSpecInit /\ [][PoolNext]_vars

\* The node: its pool of queries and the responses it is sent.
QuerySpecInit == QueryInit /\ PoolInit /\ StatsIdle /\ IterIdle

QuerySpec == QuerySpecInit /\ [][QueryNext]_vars

\* The MovingCloser iterator of one query under polls and responses.
IterSpecInit == DhtIdle /\ PoolInit /\ StatsIdle /\ IterInit

IterSpec == IterSpecInit /\ [][IterStep]_vars

\* The query pool under a caller that keeps polling the pool and its streams.
PoolFairSpec ==
    /\ PoolSpec
    /\ WF_vars(Poll)
    /\ WF_vars(\E id \in DOMAIN queries : StreamPoll(id))

\* QueryStats::merge on operands drawn from StatsValues.
StatsSpecInit == DhtIdle /\ PoolInit /\ StatsInit /\ IterIdle

StatsSpec == StatsSpecInit /\ [][StatsNext]_vars

----------------------------------------------------------------------------
(***************************************************************************)
(* Properties                                                              *)
(***************************************************************************)

\* The last operation was QueryPool::poll.
Polled == ret.op = "poll"

\* C1: QueryPool::poll returns Idle on a pool holding no queries and Waiting
\* (not Idle) on a pool that holds one: it returns Idle only when the pool is
\* empty.
C1_PollIdleOnlyWhenEmpty ==
    Polled =>
        IF size(Pool) = 0
        THEN ret.state = Idle
        ELSE ret.state # Idle /\ ret.state[1] = "Waiting"

\* A poll of a pool to which a query has been added.
C1_Witness == Polled /\ size(Pool) > 0 /\ ret.state[1] = "Waiting"

\* A stream that has nothing left to do: no seed peer, no bootstrap peer to
\* contact and no request outstanding. Such a query is complete.
Completed(stream) ==
    /\ stream.peer_iter.peers = {}
    /\ stream.inner.peers = {}
    /\ num_pending(stream.stats) = 0

AllCompleted == \A id \in DOMAIN queries : Completed(queries[id])

\* C2: when the streams of the pool are complete, the next QueryPool::poll
\* returns Finished(stream) or Timeout(stream) for one of them and removes it:
\* get(id) is None afterwards and size() is one smaller.
C2_CompletedStreamLeavesPool ==
    [][(ret'.op = "poll" /\ size(Pool) > 0 /\ AllCompleted) =>
          /\ ret'.state[1] \in {"Finished", "Timeout"}
          /\ ret'.state[2].id \in DOMAIN queries
          /\ get(Pool', ret'.state[2].id) = None
          /\ size(Pool') = size(Pool) - 1]_vars

\* The ids the pool hands out within its bound.
QueryIds == 0..MaxQueries

\* Finished has been reported for the query: by the pool or by its stream.
FinishedSeen(id) ==
    \/ ret.op = "poll" /\ ret.state[1] = "Finished" /\ ret.state[2].id = id
    \/ ret.op = "stream_poll" /\ ret.id = id /\ ret.event = Some(<<"Finished">>)

\* C3: a query seeded with zero peers and an empty bootstrap set terminates:
\* under repeated polling Finished is eventually reported for it.
C3_ZeroPeerQueryFinishes ==
    \A id \in QueryIds :
        [](  (id \in DOMAIN queries /\ Completed(queries[id]))
              => <>FinishedSeen(id))

\* The QueryStats values in hand: the operands and, once merged, the results.
StatsInHand ==
    {sa, sb, sc} \cup
    (IF merged = <<>> THEN {}
     ELSE {merged.ab, merged.ba, merged.ab_c, merged.a_bc})

C5_MergeCommutes ==
    merged # <<>> =>
        /\ merged.ab = merged.ba
        /\ merged.ab.requests = sa.requests + sb.requests

\* Operands that differ in their counters and in both timestamps.
C5_Witness ==
    /\ merged # <<>>
    /\ sa.requests # sb.requests
    /\ IsSome(sa.start) /\ IsSome(sb.start) /\ sa.start # sb.start
    /\ IsSome(sa.end) /\ sa.end # sb.end
    /\ merged.ab.requests > 0

\* The timestamps that are set among the given ones.
Present(options) == {Unwrap(o) : o \in {x \in options : IsSome(x)}}
Least(S) == CHOOSE x \in S : \A y \in S : x <= y
Greatest(S) == CHOOSE x \in S : \A y \in S : x >= y
\* None when no timestamp is set, else the least (greatest) of those set.
MinOf(options) == IF Present(options) = {} THEN None ELSE Some(Least(Present(options)))
MaxOf(options) == IF Present(options) = {} THEN None ELSE Some(Greatest(Present(options)))

\* C6: merge is associative; the merged start is the minimum of the starts
\* and the merged end the maximum of the ends, a None being absorbed by a
\* value that is set.
C6_MergeAssociative ==
    merged # <<>> =>
        /\ merged.ab_c = merged.a_bc
        /\ merged.ab.start = MinOf({sa.start, sb.start})
        /\ merged.ab.end = MaxOf({sa.end, sb.end})
        /\ merged.ab_c.start = MinOf({sa.start, sb.start, sc.start})
        /\ merged.ab_c.end = MaxOf({sa.end, sb.end, sc.end})

\* Three operands of which one has no start, one no end, the others differ.
C6_Witness ==
    /\ merged # <<>>
    /\ sa.start = None /\ IsSome(sb.start) /\ IsSome(sc.start) /\ sb.start # sc.start
    /\ IsSome(sa.end) /\ sb.end = None /\ IsSome(sc.end) /\ sa.end # sc.end
    /\ merged.ab_c.requests > merged.ab.requests

\* The message was dispatched as a request with this command.
Requested(cmd) == ty = "Request" /\ msg.command = Some(cmd)

NoCodec(m) ==
    /\ IsSome(m.command)
    /\ Unwrap(m.command).kind = "Unknown"
    /\ Unwrap(m.command).name \notin commands

\* The routing table after the upsert of the sender of request m.
SenderUpsert(kb, m, p) ==
    IF IsSome(m.id) /\ Len(Unwrap(m.id)) = KeyLen
    THEN [x \in DOMAIN kb \cup {Unwrap(m.id)} |->
            IF x = Unwrap(m.id)
            THEN [addr |-> p.addr, token |-> None, to |-> m.to]
            ELSE kb[x]]
    ELSE kb

Custom(m) == IsSome(m.command) /\ Unwrap(m.command).kind = "Unknown"

MalformedSender(m) == m.id = None \/ Len(Unwrap(m.id)) # KeyLen

\* What the command of request m yields by itself, on the table as it stands:
\* the outcome and the replies queued.
ByCommand(kb, m, p) ==
    LET self == [id |-> LocalId, kbuckets |-> kb, commands |-> commands, io |-> <<>>]
    IN IF m.command = None THEN [result |-> Err(MissingCommand), io |-> <<>>]
       ELSE LET cmd == Unwrap(m.command)
                r == CASE cmd.kind = "Ping" -> onping(self, m, p)
                       [] cmd.kind = "FindNode" -> onfindnode(self, m, p)
                       [] cmd.kind = "HolePunch" -> onholepunch(self, m, p)
                       [] cmd.kind = "Unknown" -> on_command(self, cmd.name, m, p)
            IN [result |-> r.result, io |-> r.self.io]

\* C11: a request or a response whose sender id is absent or of the wrong
\* length leaves the routing table as it was and raises no error of its own;
\* the request is still dispatched by its command, with the outcome and the
\* replies that command yields.
C11_MalformedSenderSkipped ==
    [][(ty' \in {"Request", "Response"} /\ MalformedSender(msg')) =>
          /\ kbuckets' = kbuckets
          /\ ty' = "Request" =>
                /\ result' = ByCommand(kbuckets, msg', peer').result
                /\ io' = ByCommand(kbuckets, msg', peer').io
          /\ ty' = "Response" => (result' = <<>> /\ io' = <<>>)]_vars

\* A Ping from a sender whose id is too short, answered, the table holding
\* one node and not the sender.
C11_Witness ==
    /\ Requested(Ping)
    /\ msg.id = Some(ShortBytes)
    /\ msg.value = None
    /\ DOMAIN kbuckets = {IdA}
    /\ result = Ok
    /\ Len(io) = 1

\* The sender id of the message has the length of an id.
ValidSender(m) == IsSome(m.id) /\ Len(Unwrap(m.id)) = KeyLen

\* Table kb with node id set to (addr, token, to), the other nodes as they were.
Upserted(kb, id, addr, token, to) ==
    [x \in DOMAIN kb \cup {id} |->
        IF x = id THEN [addr |-> addr, token |-> token, to |-> to] ELSE kb[x]]

IdOf(tuple) == SubSeq(tuple, 1, KeyLen)

\* Node x is strictly closer to key than node y.
Closer(x, y, key) == DistLess(Distance(x, key), Distance(y, key), 1)

\* The smaller of two numbers.
Min(a, b) == IF a < b THEN a ELSE b

C15_RequestNeverAborts ==
    ty = "Request" => (result = Ok \/ result[1] = "Err")

\* C17: every allocation hands out the value of the counter and advances the
\* counter by exactly one, wrapping to 0 at the end of its range, and the id
\* handed out is not the id of a query that is live in the pool.
C17_FreshQueryId ==
    [][next_id' # next_id =>
          /\ ret'.op = "add"
          /\ ret'.id = next_id
          /\ next_id' = IF next_id = UsizeRange - 1 THEN 0 ELSE next_id + 1
          /\ ret'.id \notin DOMAIN queries]_vars

\* This step dispatches an inbound response.
ResponseStep == msg = <<>> /\ msg' # <<>> /\ ty' = "Response"

\* The ids of the peers in the payload of response m.
PayloadIds(m) ==
    IF m.closer_nodes = None THEN {}
    ELSE {IdOf(Unwrap(m.closer_nodes)[i]) : i \in 1..Len(Unwrap(m.closer_nodes))}

\* C14: a response that resolves to a query live in the pool is forwarded
\* into that query after the upsert of the sender: the success counter of
\* the stream grows by one, the peers of the payload are among its candidates
\* and no other query changes; a response that resolves to no live query
\* changes no query.
C14_ResponseForwarded ==
    [][ResponseStep =>
          /\ kbuckets' = IF ValidSender(msg')
                         THEN Upserted(kbuckets, Unwrap(msg'.id), peer'.addr,
                                       msg'.roundtrip_token, msg'.to)
                         ELSE kbuckets
          /\ IF IsSome(msg'.rid) /\ Unwrap(msg'.rid) \in DOMAIN queries
             THEN LET q == Unwrap(msg'.rid)
                  IN /\ DOMAIN queries' = DOMAIN queries
                     /\ queries'[q].stats.success = queries[q].stats.success + 1
                     /\ PayloadIds(msg') \subseteq queries'[q].inner.peers
                     /\ \A o \in DOMAIN queries \ {q} : queries'[o] = queries[o]
             ELSE queries' = queries]_vars

\* The phase of a query, as its peer iterator tells it; a stream has no other
\* record of it.
Phase(stream) ==
    CASE stream.peer_iter.kind = "Bootstrap" -> "Bootstrapping"
      [] stream.peer_iter.kind = "MovingCloser" -> "MovingCloser"
      [] stream.peer_iter.kind = "Updating" -> "Updating"
      [] OTHER -> "Finalized"

\* The moves of the phase a query may make.
PhaseMoves ==
    {<<"Bootstrapping", "MovingCloser">>, <<"MovingCloser", "Updating">>,
     <<"MovingCloser", "Finalized">>, <<"Updating", "Finalized">>}

\* This step is move_closer on query id.
MoveCloserStep(id) == ret' # ret /\ ret'.op = "move_closer" /\ ret'.id = id

PoolStep == <<queries, next_id, ret>>' # <<queries, next_id, ret>>

\* This step dispatches an inbound message.
DispatchStep == msg = <<>> /\ msg' # <<>>

\* The event the last poll of a stream returned asks for the removal of a
\* node.
RemoveNodeEmitted ==
    /\ ret.op = "stream_poll"
    /\ IsSome(ret.event)
    /\ Unwrap(ret.event)[1] = "RemoveNode"

\* C19: no operation of the pool or of a stream (add, poll, the poll of a
\* stream, inject_response, move_closer) changes the routing table; the table
\* changes in the dispatch of an inbound message only, and no node leaves the
\* table unless a stream has asked for it by a RemoveNode event.
C19_OnlyDispatcherMutatesTable ==
    [][/\ PoolStep => kbuckets' = kbuckets
       /\ kbuckets' # kbuckets => DispatchStep /\ ~PoolStep
       /\ ~(DOMAIN kbuckets \subseteq DOMAIN kbuckets') => RemoveNodeEmitted]_vars

\* move_closer has acted on a full pool after a response had upserted its
\* sender, with its token, into a table that held another node: both nodes
\* are still there.
C19_Witness ==
    /\ ty = "Response"
    /\ DOMAIN kbuckets = {IdA, IdB}
    /\ kbuckets[IdA].token = Some(<<7>>)
    /\ size(Pool) = MaxQueries
    /\ ret.op = "move_closer"

\* C16: within one query the MovingCloser iterator hands out no peer id
\* twice, whatever polls and injected responses it sees.
C16_HandedOutAtMostOnce ==
    handed # <<>> => \A id \in IterPeerIds : handed[id] <= 1

\* More peers have been handed out than one demand yields, and one of them
\* has since been pushed out of the candidate set by closer peers.
C16_Witness ==
    /\ handed # <<>>
    /\ Cardinality({id \in IterPeerIds : handed[id] = 1}) > ALPHA_VALUE
    /\ \E id \in IterPeerIds : handed[id] = 1 /\ id \notin CandidateIds(candidates)
    /\ Len(candidates) = MaxCandidates

====
